---- MODULE Spec2Model ----
(***************************************************************************)
(* Model of streamlit_app.py, the datos.gob.es catalog explorer.           *)
(*                                                                         *)
(* Python values are tagged records: t is the Python type and the second   *)
(* field, named after the type, is the payload (chars of a str, num of an  *)
(* int, elems of a list, fields of a dict).  A Python string is a sequence *)
(* of one-character strings, so that splitting, parsing, formatting and    *)
(* lexicographic comparison are computed rather than assumed.  A dict is a *)
(* function whose domain is a set of such character sequences.  A raised   *)
(* exception is the value Raise, which every caller either handles         *)
(* (try/except) or propagates.                                             *)
(***************************************************************************)
EXTENDS Integers, Sequences, FiniteSets, TLC

VARIABLES
    pc,         \* position of the script: where main() or the called function is
    operation,  \* the selected dataset_operation of main()
    requests,   \* the catalog requests main() sent in this run: [endpoint, params]
    response,   \* the reply to the last GET, as requests.get delivered it
    data,       \* what make_api_request returned
    stats,      \* what get_dataset_stats returned
    idx,        \* index of the item the display loop is at
    lookups,    \* the GETs get_distribution_urls sent so far, in order
    urls,       \* what the last get_distribution_urls returned
    outstanding,\* number of GETs sent and not yet answered
    failure     \* the place an exception escaped from, "none" otherwise

vars == <<pc, operation, requests, response, data, stats, idx, lookups, urls,
          outstanding, failure>>

(***************************************************************************)
(* Python values                                                           *)
(***************************************************************************)
None == [t |-> "none"]
Raise == [t |-> "raise"]
PyStr(s) == [t |-> "str", chars |-> s]
PyInt(n) == [t |-> "int", num |-> n]
PyList(q) == [t |-> "list", elems |-> q]
PyDict(f) == [t |-> "dict", fields |-> f]
EmptyDict == PyDict(<<>>)

\* bool(x): None, 0 and the empty str, list and dict are false.
Truthy(x) ==
    CASE x.t = "none" -> FALSE
      [] x.t = "int" -> x.num # 0
      [] x.t = "str" -> Len(x.chars) > 0
      [] x.t = "list" -> Len(x.elems) > 0
      [] x.t = "dict" -> DOMAIN x.fields # {}

\* True when sub occurs in s as a contiguous run of characters.
IsSubstring(sub, s) ==
    \E i \in 0..(Len(s) - Len(sub)) : SubSeq(s, i + 1, i + Len(sub)) = sub

\* `key in x` raises TypeError unless x is a container.
ContainsRaises(x) == x.t \notin {"dict", "list", "str"}

\* `key in x` for a str key: a dict tests its keys, a list its elements, a
\* str its substrings.
Contains(x, key) ==
    CASE x.t = "dict" -> key \in DOMAIN x.fields
      [] x.t = "list" -> \E i \in 1..Len(x.elems) : x.elems[i].t = "str" /\ x.elems[i].chars = key
      [] x.t = "str" -> IsSubstring(key, x.chars)

\* x.get(key, default): only a dict has get; the rest raise AttributeError.
Get(x, key, default) ==
    IF x.t # "dict" THEN Raise
    ELSE IF key \in DOMAIN x.fields THEN x.fields[key] ELSE default

\* Code points of the characters the model's strings use.
Ord ==
    " " :> 32 @@ "'" :> 39 @@ "+" :> 43 @@ "," :> 44 @@ "-" :> 45 @@ "." :> 46 @@ "/" :> 47
    @@ "0" :> 48 @@ "1" :> 49 @@ "2" :> 50 @@ "3" :> 51 @@ "4" :> 52 @@ "5" :> 53
    @@ "6" :> 54 @@ "7" :> 55 @@ "8" :> 56 @@ "9" :> 57 @@ ":" :> 58
    @@ "A" :> 65 @@ "B" :> 66 @@ "C" :> 67 @@ "D" :> 68 @@ "E" :> 69 @@ "F" :> 70
    @@ "G" :> 71 @@ "H" :> 72 @@ "I" :> 73 @@ "J" :> 74 @@ "K" :> 75 @@ "L" :> 76
    @@ "M" :> 77 @@ "N" :> 78 @@ "O" :> 79 @@ "P" :> 80 @@ "Q" :> 81 @@ "R" :> 82
    @@ "S" :> 83 @@ "T" :> 84 @@ "U" :> 85 @@ "V" :> 86 @@ "W" :> 87 @@ "X" :> 88
    @@ "Y" :> 89 @@ "Z" :> 90 @@ "_" :> 95
    @@ "a" :> 97 @@ "b" :> 98 @@ "c" :> 99 @@ "d" :> 100 @@ "e" :> 101 @@ "f" :> 102
    @@ "g" :> 103 @@ "h" :> 104 @@ "i" :> 105 @@ "j" :> 106 @@ "k" :> 107 @@ "l" :> 108
    @@ "m" :> 109 @@ "n" :> 110 @@ "o" :> 111 @@ "p" :> 112 @@ "q" :> 113 @@ "r" :> 114
    @@ "s" :> 115 @@ "t" :> 116 @@ "u" :> 117 @@ "v" :> 118 @@ "w" :> 119 @@ "x" :> 120
    @@ "y" :> 121 @@ "z" :> 122

\* a < b for two Python strings: by code point, a proper prefix being less.
RECURSIVE StrLess(_, _)
StrLess(a, b) ==
    IF b = <<>> THEN FALSE
    ELSE IF a = <<>> THEN TRUE
    ELSE IF Head(a) # Head(b) THEN Ord[Head(a)] < Ord[Head(b)]
    ELSE StrLess(Tail(a), Tail(b))

DigitChars == <<"0", "1", "2", "3", "4", "5", "6", "7", "8", "9">>
DigitVal == [c \in {DigitChars[i] : i \in 1..10} |-> CHOOSE i \in 0..9 : DigitChars[i + 1] = c]
IsDigits(s) == \A i \in 1..Len(s) : s[i] \in DOMAIN DigitVal

\* int(s) for a run of decimal digits.
RECURSIVE ToInt(_)
ToInt(s) ==
    IF s = <<>> THEN 0
    ELSE 10 * ToInt(SubSeq(s, 1, Len(s) - 1)) + DigitVal[s[Len(s)]]

\* Decimal digits of a natural number, without padding.
RECURSIVE Decimal(_)
Decimal(n) ==
    IF n < 10 THEN <<DigitChars[n + 1]>>
    ELSE Decimal(n \div 10) \o <<DigitChars[(n % 10) + 1]>>

\* Zero-padded decimal of width w (the %d, %m, %H, %M, %Y directives).
RECURSIVE Pad(_, _)
Pad(n, w) ==
    IF w = 0 THEN <<>>
    ELSE Pad(n \div 10, w - 1) \o <<DigitChars[(n % 10) + 1]>>

\* str(x) for the values the code converts: a str is itself, an int its
\* decimal digits, None the text "None".
str(x) ==
    CASE x.t = "str" -> x.chars
      [] x.t = "int" -> IF x.num < 0 THEN <<"-">> \o Decimal(-x.num) ELSE Decimal(x.num)
      [] x.t = "none" -> <<"N", "o", "n", "e">>

(***************************************************************************)
(* format_title                                                            *)
(***************************************************************************)
\* The default label.
SinTitulo == PyStr(<<"S", "i", "n", " ", "t", "í", "t", "u", "l", "o">>)

format_title(title_list) ==
    IF ~Truthy(title_list) THEN SinTitulo
    ELSE IF title_list.t = "list" THEN Get(title_list.elems[1], <<"_", "v", "a", "l", "u", "e">>, SinTitulo)
    ELSE Raise

(***************************************************************************)
(* format_date                                                             *)
(***************************************************************************)
Weekdays == {<<"M", "o", "n">>, <<"T", "u", "e">>, <<"W", "e", "d">>, <<"T", "h", "u">>, <<"F", "r", "i">>, <<"S", "a", "t">>, <<"S", "u", "n">>}
Months == <<<<"J", "a", "n">>, <<"F", "e", "b">>, <<"M", "a", "r">>, <<"A", "p", "r">>, <<"M", "a", "y">>, <<"J", "u", "n">>,
            <<"J", "u", "l">>, <<"A", "u", "g">>, <<"S", "e", "p">>, <<"O", "c", "t">>, <<"N", "o", "v">>, <<"D", "e", "c">>>>
TzNames == {<<"G", "M", "T">>, <<"U", "T", "C">>}

MonthNumber(name) == CHOOSE m \in 1..12 : Months[m] = name

IsLeap(y) == (y % 4 = 0 /\ y % 100 # 0) \/ y % 400 = 0

DaysInMonth(y, m) ==
    IF m = 2 THEN (IF IsLeap(y) THEN 29 ELSE 28)
    ELSE IF m \in {4, 6, 9, 11} THEN 30 ELSE 31

\* datetime.strptime(s, '%a, %d %b %Y %H:%M:%S %Z%z') accepts s.  The model
\* covers the zero-padded layout; every other string drawn as input is one
\* strptime rejects as well.
strptime_accepts(s) ==
    /\ Len(s) = 34
    /\ SubSeq(s, 1, 3) \in Weekdays
    /\ SubSeq(s, 4, 5) = <<",", " ">>
    /\ IsDigits(SubSeq(s, 6, 7))
    /\ s[8] = " "
    /\ \E m \in 1..12 : Months[m] = SubSeq(s, 9, 11)
    /\ s[12] = " "
    /\ IsDigits(SubSeq(s, 13, 16))
    /\ s[17] = " "
    /\ IsDigits(SubSeq(s, 18, 19)) /\ s[20] = ":"
    /\ IsDigits(SubSeq(s, 21, 22)) /\ s[23] = ":"
    /\ IsDigits(SubSeq(s, 24, 25)) /\ s[26] = " "
    /\ SubSeq(s, 27, 29) \in TzNames
    /\ s[30] \in {"+", "-"}
    /\ IsDigits(SubSeq(s, 31, 34))
    /\ ToInt(SubSeq(s, 33, 34)) <= 59
    /\ ToInt(SubSeq(s, 18, 19)) <= 23
    /\ ToInt(SubSeq(s, 21, 22)) <= 59
    /\ ToInt(SubSeq(s, 24, 25)) <= 61
    /\ ToInt(SubSeq(s, 6, 7)) >= 1
    /\ ToInt(SubSeq(s, 6, 7)) <=
           DaysInMonth(ToInt(SubSeq(s, 13, 16)), MonthNumber(SubSeq(s, 9, 11)))

\* The datetime strptime builds from an accepted string.
strptime(s) ==
    [day |-> ToInt(SubSeq(s, 6, 7)),
     month |-> MonthNumber(SubSeq(s, 9, 11)),
     year |-> ToInt(SubSeq(s, 13, 16)),
     hour |-> ToInt(SubSeq(s, 18, 19)),
     minute |-> ToInt(SubSeq(s, 21, 22))]

\* dt.strftime('%d/%m/%Y %H:%M')
strftime(dt) ==
    Pad(dt.day, 2) \o <<"/">> \o Pad(dt.month, 2) \o <<"/">> \o Pad(dt.year, 4)
        \o <<" ">> \o Pad(dt.hour, 2) \o <<":">> \o Pad(dt.minute, 2)

\* The bare except returns the argument itself on any failure, a value that
\* is not a str included (strptime raises TypeError on it).
format_date(date_str) ==
    IF date_str.t = "str" /\ strptime_accepts(date_str.chars)
    THEN PyStr(strftime(strptime(date_str.chars)))
    ELSE date_str

(***************************************************************************)
(* get_dataset_stats                                                       *)
(***************************************************************************)
\* x[key] for a str key: only a dict can be subscripted by a str, and only
\* by a key it holds.
Subscript(x, key) ==
    IF x.t = "dict" /\ key \in DOMAIN x.fields THEN x.fields[key] ELSE Raise

\* The test `data and "result" in data and "items" in data["result"]`:
\* "yes", "no", or "raise" when one of the steps raises.
has_result_items(d) ==
    IF ~Truthy(d) THEN "no"
    ELSE IF ContainsRaises(d) THEN "raise"
    ELSE IF ~Contains(d, <<"r", "e", "s", "u", "l", "t">>) THEN "no"
    ELSE IF Subscript(d, <<"r", "e", "s", "u", "l", "t">>) = Raise THEN "raise"
    ELSE IF ContainsRaises(Subscript(d, <<"r", "e", "s", "u", "l", "t">>)) THEN "raise"
    ELSE IF Contains(Subscript(d, <<"r", "e", "s", "u", "l", "t">>), <<"i", "t", "e", "m", "s">>) THEN "yes" ELSE "no"

NA == <<"N", "/", "A">>

\* The statistics returned when the test of line 42 finds no result.items.
no_items_stats ==
    [total_datasets |-> 0, unique_formats |-> 0, unique_publishers |-> 0,
     common_keywords |-> <<>>, date_range |-> NA]

\* Lines 62-64: the formats of a list of distributions, in order.
RECURSIVE list_formats(_)
list_formats(dists) ==
    IF dists = <<>> THEN <<>>
    ELSE LET dist == Head(dists) IN
         (IF dist.t = "dict" /\ <<"f", "o", "r", "m", "a", "t">> \in DOMAIN dist.fields
          THEN <<str(dist.fields[<<"f", "o", "r", "m", "a", "t">>])>> ELSE <<>>)
         \o list_formats(Tail(dists))

\* Lines 59-66 with the string branch left out.
item_formats_no_str(item) ==
    LET distributions == Get(item, <<"d", "i", "s", "t", "r", "i", "b", "u", "t", "i", "o", "n">>, PyList(<<>>)) IN
    IF Truthy(distributions) /\ distributions.t = "list"
    THEN list_formats(distributions.elems)
    ELSE <<>>

\* Lines 59-66: what one item appends to formats.
item_formats(item) ==
    LET distributions == Get(item, <<"d", "i", "s", "t", "r", "i", "b", "u", "t", "i", "o", "n">>, PyList(<<>>)) IN
    IF ~Truthy(distributions) THEN <<>>
    ELSE IF distributions.t = "list" THEN list_formats(distributions.elems)
    ELSE IF distributions.t = "str" THEN <<distributions.chars>>
    ELSE <<>>

\* Lines 69-70: what one item appends to publishers.
item_publishers(item) ==
    IF <<"p", "u", "b", "l", "i", "s", "h", "e", "r">> \in DOMAIN item.fields THEN <<str(item.fields[<<"p", "u", "b", "l", "i", "s", "h", "e", "r">>])>> ELSE <<>>

\* Line 73: the _value of the entries that are dicts, '' where it is missing.
RECURSIVE keyword_values(_)
keyword_values(kws) ==
    IF kws = <<>> THEN <<>>
    ELSE (IF Head(kws).t = "dict"
          THEN <<Get(Head(kws), <<"_", "v", "a", "l", "u", "e">>, PyStr(<<>>))>> ELSE <<>>)
         \o keyword_values(Tail(kws))

\* Lines 72-73: what one item extends keywords with.
item_keywords(item) ==
    IF <<"k", "e", "y", "w", "o", "r", "d">> \in DOMAIN item.fields /\ item.fields[<<"k", "e", "y", "w", "o", "r", "d">>].t = "list"
    THEN keyword_values(item.fields[<<"k", "e", "y", "w", "o", "r", "d">>].elems)
    ELSE <<>>

\* Lines 75-79: what one item appends to dates.
item_dates(item) ==
    IF <<"i", "s", "s", "u", "e", "d">> \in DOMAIN item.fields THEN <<format_date(item.fields[<<"i", "s", "s", "u", "e", "d">>])>> ELSE <<>>

RECURSIVE all_formats(_)
all_formats(items) ==
    IF items = <<>> THEN <<>>
    ELSE item_formats(Head(items)) \o all_formats(Tail(items))

RECURSIVE all_publishers(_)
all_publishers(items) ==
    IF items = <<>> THEN <<>>
    ELSE item_publishers(Head(items)) \o all_publishers(Tail(items))

RECURSIVE all_keywords(_)
all_keywords(items) ==
    IF items = <<>> THEN <<>>
    ELSE item_keywords(Head(items)) \o all_keywords(Tail(items))

RECURSIVE all_dates(_)
all_dates(items) ==
    IF items = <<>> THEN <<>>
    ELSE item_dates(Head(items)) \o all_dates(Tail(items))

\* set(xs)
ToSet(xs) == {xs[i] : i \in 1..Len(xs)}

\* Counter.update for one key: a key seen before is counted where it stands,
\* a new key is inserted last.
counter_add(c, k) ==
    IF \E i \in 1..Len(c) : c[i][1] = k
    THEN [i \in 1..Len(c) |-> IF c[i][1] = k THEN <<k, c[i][2] + 1>> ELSE c[i]]
    ELSE Append(c, <<k, 1>>)

\* Counter(keys): the <<key, count>> pairs in order of first occurrence.
RECURSIVE Counter(_)
Counter(keys) ==
    IF keys = <<>> THEN <<>>
    ELSE counter_add(Counter(SubSeq(keys, 1, Len(keys) - 1)), keys[Len(keys)])

\* One step of a stable descending sort: e, which follows the entries of
\* sorted in the original order, goes after every entry whose count is not
\* smaller.
insert_desc(sorted, e) ==
    LET n == Cardinality({i \in 1..Len(sorted) : sorted[i][2] >= e[2]}) IN
    SubSeq(sorted, 1, n) \o <<e>> \o SubSeq(sorted, n + 1, Len(sorted))

RECURSIVE sort_desc(_)
sort_desc(c) ==
    IF c = <<>> THEN <<>>
    ELSE insert_desc(sort_desc(SubSeq(c, 1, Len(c) - 1)), c[Len(c)])

\* The argument of most_common in line 85.
TopN == 5

\* A most_common that breaks ties in favour of the key seen last.
most_common_last_first(c, n) ==
    LET rev == [i \in 1..Len(c) |-> c[Len(c) + 1 - i]]
        s == sort_desc(rev) IN
    SubSeq(s, 1, IF n < Len(s) THEN n ELSE Len(s))

\* Counter.most_common(n): heapq.nlargest by count, documented as
\* sorted(items, key=count, reverse=True)[:n], a stable sort.
most_common(c, n) ==
    LET s == sort_desc(c) IN
    SubSeq(s, 1, IF n < Len(s) THEN n ELSE Len(s))

\* min(xs) and max(xs) of a non-empty sequence of str, each the first of
\* its kind.
RECURSIVE str_min(_)
str_min(xs) ==
    IF Len(xs) = 1 THEN xs[1]
    ELSE LET m == str_min(SubSeq(xs, 1, Len(xs) - 1)) IN
         IF StrLess(xs[Len(xs)], m) THEN xs[Len(xs)] ELSE m

RECURSIVE str_max(_)
str_max(xs) ==
    IF Len(xs) = 1 THEN xs[1]
    ELSE LET m == str_max(SubSeq(xs, 1, Len(xs) - 1)) IN
         IF StrLess(m, xs[Len(xs)]) THEN xs[Len(xs)] ELSE m

\* min(xs) and max(xs) of a non-empty sequence of int.
int_min(xs) == CHOOSE x \in ToSet(xs) : \A y \in ToSet(xs) : x <= y
int_max(xs) == CHOOSE x \in ToSet(xs) : \A y \in ToSet(xs) : y <= x

\* Line 86: f"{min(dates, default='N/A')} - {max(dates, default='N/A')}".
\* A single value is not compared with anything; several values are ordered
\* among str or among int, and a str, an int and None cannot be ordered
\* with one another, nor None with None (TypeError).
date_range_of(dates) ==
    IF dates = <<>> THEN PyStr(NA \o <<" ", "-", " ">> \o NA)
    ELSE IF Len(dates) = 1 THEN PyStr(str(dates[1]) \o <<" ", "-", " ">> \o str(dates[1]))
    ELSE IF \A i \in 1..Len(dates) : dates[i].t = "str"
    THEN LET texts == [i \in 1..Len(dates) |-> dates[i].chars] IN
         PyStr(str_min(texts) \o <<" ", "-", " ">> \o str_max(texts))
    ELSE IF \A i \in 1..Len(dates) : dates[i].t = "int"
    THEN LET nums == [i \in 1..Len(dates) |-> dates[i].num] IN
         PyStr(str(PyInt(int_min(nums))) \o <<" ", "-", " ">> \o str(PyInt(int_max(nums))))
    ELSE Raise

\* Lines 51-87 for a list of items.
stats_of_items(items) ==
    IF \E i \in 1..Len(items) : items[i].t # "dict" THEN Raise
    ELSE IF \E i \in 1..Len(all_keywords(items)) :
                all_keywords(items)[i].t \in {"list", "dict"} THEN Raise
    ELSE IF date_range_of(all_dates(items)) = Raise THEN Raise
    ELSE [total_datasets |-> Len(items),
          unique_formats |-> Cardinality(ToSet(all_formats(items))),
          unique_publishers |->
              IF all_publishers(items) # <<>>
              THEN Cardinality(ToSet(all_publishers(items))) ELSE 0,
          common_keywords |-> most_common(Counter(all_keywords(items)), TopN),
          date_range |-> date_range_of(all_dates(items)).chars]

\* get_dataset_stats(data): a record of the five statistics, or Raise.
get_dataset_stats(d) ==
    IF has_result_items(d) = "raise" THEN Raise
    ELSE IF has_result_items(d) = "no" THEN no_items_stats
    ELSE LET items == Subscript(Subscript(d, <<"r", "e", "s", "u", "l", "t">>), <<"i", "t", "e", "m", "s">>) IN
         IF items = Raise THEN Raise
         ELSE IF items.t = "list" THEN stats_of_items(items.elems)
         ELSE IF items.t \in {"str", "dict"} /\ ~Truthy(items) THEN stats_of_items(<<>>)
         ELSE Raise

(***************************************************************************)
(* The network: what requests.get delivers                                 *)
(***************************************************************************)
\* requests.get raised (connection refused, timeout, ...).
TransportError == [kind |-> "error", status |-> 0, valid |-> FALSE, json |-> None]

\* A reply with a status code whose body does not decode as JSON.
InvalidBody(status) == [kind |-> "http", status |-> status, valid |-> FALSE, json |-> None]

\* A reply with a status code whose body decodes to the value json.
JsonBody(status, json) == [kind |-> "http", status |-> status, valid |-> TRUE, json |-> json]

\* The status the code compares response.status_code with.
HTTP_OK == 200

BASE_URL == <<"h", "t", "t", "p", ":", "/", "/", "d", "a", "t", "o", "s", ".", "g", "o", "b", ".", "e", "s", "/", "a", "p", "i", "d", "a", "t", "a">>

\* Line 28: the accessURL of every dist of a list, '' where it is missing;
\* Raise when a dist has no get.
RECURSIVE access_urls(_)
access_urls(dists) ==
    IF dists = <<>> THEN PyList(<<>>)
    ELSE IF Head(dists).t # "dict" THEN Raise
    ELSE IF access_urls(Tail(dists)) = Raise THEN Raise
    ELSE PyList(<<Get(Head(dists), <<"a", "c", "c", "e", "s", "s", "U", "R", "L">>, PyStr(<<>>))>>
                \o access_urls(Tail(dists)).elems)

\* Line 28 for the decoded body: data.get('result', {}).get('items', [])
\* iterated by the comprehension.  Iterating a str yields its characters and
\* iterating a dict its keys, both str and so without get; None and int are
\* not iterable.
urls_of_body(d) ==
    LET result == Get(d, <<"r", "e", "s", "u", "l", "t">>, EmptyDict)
        items == IF result = Raise THEN Raise ELSE Get(result, <<"i", "t", "e", "m", "s">>, PyList(<<>>)) IN
    IF items = Raise THEN Raise
    ELSE IF items.t = "list" THEN access_urls(items.elems)
    ELSE IF items.t \in {"str", "dict"} /\ ~Truthy(items) THEN PyList(<<>>)
    ELSE Raise

\* get_distribution_urls, from the reply to its GET: the except returns [],
\* and a status other than 200 falls off the end of the function.
get_distribution_urls(resp) ==
    IF resp.kind = "error" THEN PyList(<<>>)
    ELSE IF resp.status = HTTP_OK
    THEN (IF ~resp.valid THEN PyList(<<>>)
          ELSE IF urls_of_body(resp.json) = Raise THEN PyList(<<>>)
          ELSE urls_of_body(resp.json))
    ELSE None

\* A make_api_request that takes every 2xx status for a success.
make_api_request_2xx(resp) ==
    IF resp.kind = "error" THEN None
    ELSE IF resp.status >= 200 /\ resp.status <= 299
    THEN (IF resp.valid THEN resp.json ELSE None)
    ELSE None

\* make_api_request, from the reply to its GET.
make_api_request(resp) ==
    IF resp.kind = "error" THEN None
    ELSE IF resp.status = HTTP_OK
    THEN (IF resp.valid THEN resp.json ELSE None)
    ELSE None

(***************************************************************************)
(* Inputs: the values the catalog is drawn to answer with                  *)
(***************************************************************************)
\* A keyword entry of the catalog: { "_value": text }.
Kw(text) == PyDict(<<"_", "v", "a", "l", "u", "e">> :> PyStr(text))

\* A distribution entry carrying a format.
Dist(format) == PyDict(<<"f", "o", "r", "m", "a", "t">> :> format)

Issued1 == PyStr(<<"M", "o", "n", ",", " ", "0", "1", " ", "J", "a", "n", " ", "2", "0", "2", "4", " ", "1", "0", ":", "0", "0", ":", "0", "0", " ", "G", "M", "T", "+", "0", "0", "0", "0">>)
Issued2 == PyStr(<<"T", "u", "e", ",", " ", "0", "2", " ", "J", "a", "n", " ", "2", "0", "2", "4", " ", "1", "0", ":", "0", "0", ":", "0", "0", " ", "G", "M", "T", "+", "0", "0", "0", "0">>)
Issued3 == PyStr(<<"F", "r", "i", ",", " ", "1", "5", " ", "D", "e", "c", " ", "2", "0", "2", "3", " ", "0", "9", ":", "3", "0", ":", "0", "0", " ", "G", "M", "T", "+", "0", "0", "0", "0">>)
NotADate == PyStr(<<"n", "o", "t", "-", "a", "-", "d", "a", "t", "e">>)
ShortDate == PyStr(<<"0", "1", " ", "J", "a", "n", " ", "2", "0", "2", "4">>)

\* A complete item: distributions of every entry shape, six keywords.
ItemA ==
    PyDict(<<"i", "d", "e", "n", "t", "i", "f", "i", "e", "r">> :> PyStr(<<"h", "t", "t", "p", ":", "/", "/", "h", "/", "c", "/", "d", "s", "1">>)
        @@ <<"t", "i", "t", "l", "e">> :> PyList(<<PyDict(<<"_", "v", "a", "l", "u", "e">> :> PyStr(<<"T", "1">>))>>)
        @@ <<"p", "u", "b", "l", "i", "s", "h", "e", "r">> :> PyStr(<<"P", "1">>)
        @@ <<"d", "i", "s", "t", "r", "i", "b", "u", "t", "i", "o", "n">> :> PyList(<<Dist(PyStr(<<"c", "s", "v">>)), Dist(PyStr(<<"j", "s", "o", "n">>)),
                                        PyDict(<<"a", "c", "c", "e", "s", "s", "U", "R", "L">> :> PyStr(<<"u">>)),
                                        PyStr(<<"x", "m", "l">>), Dist(PyStr(<<"c", "s", "v">>))>>)
        @@ <<"k", "e", "y", "w", "o", "r", "d">> :> PyList(<<Kw(<<"a">>), Kw(<<"a">>), Kw(<<"b">>), Kw(<<"c">>), Kw(<<"c">>), Kw(<<"c">>)>>)
        @@ <<"i", "s", "s", "u", "e", "d">> :> Issued1)

\* distribution is a single string; the identifier ends in a slash.
ItemB ==
    PyDict(<<"i", "d", "e", "n", "t", "i", "f", "i", "e", "r">> :> PyStr(<<"h", "/", "d", "s", "2", "/">>)
        @@ <<"p", "u", "b", "l", "i", "s", "h", "e", "r">> :> PyStr(<<"P", "1">>)
        @@ <<"d", "i", "s", "t", "r", "i", "b", "u", "t", "i", "o", "n">> :> PyStr(<<"c", "s", "v">>)
        @@ <<"k", "e", "y", "w", "o", "r", "d">> :> PyList(<<Kw(<<"d">>), Kw(<<"e">>), Kw(<<"f">>)>>)
        @@ <<"i", "s", "s", "u", "e", "d">> :> Issued2)

\* No field at all.
ItemC == EmptyDict

\* A keyword list with an entry that is no object and one without _value;
\* a format that is a number; an issued value that is no date.
ItemD ==
    PyDict(<<"i", "d", "e", "n", "t", "i", "f", "i", "e", "r">> :> PyStr(<<"d", "s", "4">>)
        @@ <<"t", "i", "t", "l", "e">> :> PyList(<<>>)
        @@ <<"p", "u", "b", "l", "i", "s", "h", "e", "r">> :> PyStr(<<"P", "2">>)
        @@ <<"d", "i", "s", "t", "r", "i", "b", "u", "t", "i", "o", "n">> :> PyList(<<Dist(PyInt(1)), Dist(PyStr(<<"1">>))>>)
        @@ <<"k", "e", "y", "w", "o", "r", "d">> :> PyList(<<Kw(<<"a">>), PyStr(<<"x">>), EmptyDict>>)
        @@ <<"i", "s", "s", "u", "e", "d">> :> NotADate)

\* An empty distribution list; a date late in the month of an earlier year.
ItemE ==
    PyDict(<<"i", "d", "e", "n", "t", "i", "f", "i", "e", "r">> :> PyStr(<<"h", "/", "d", "s", "5">>)
        @@ <<"d", "i", "s", "t", "r", "i", "b", "u", "t", "i", "o", "n">> :> PyList(<<>>)
        @@ <<"k", "e", "y", "w", "o", "r", "d">> :> PyList(<<Kw(<<"f">>), Kw(<<"f">>), Kw(<<"e">>)>>)
        @@ <<"i", "s", "s", "u", "e", "d">> :> Issued3)

\* A string distribution other than ItemB's and a date in another layout.
ItemF ==
    PyDict(<<"i", "d", "e", "n", "t", "i", "f", "i", "e", "r">> :> PyStr(<<"h", "/", "d", "s", "6">>)
        @@ <<"d", "i", "s", "t", "r", "i", "b", "u", "t", "i", "o", "n">> :> PyStr(<<"j", "s", "o", "n">>)
        @@ <<"i", "s", "s", "u", "e", "d">> :> ShortDate)

Items == {ItemA, ItemB, ItemC, ItemD, ItemE, ItemF}

\* Greatest number of items in a page.
MaxItems == 2

\* The pages: every sequence of at most MaxItems items.
Pages == UNION {[1..n -> Items] : n \in 0..MaxItems}

\* The envelope { result: { items: page } }.
Envelope(page) == PyDict(<<"r", "e", "s", "u", "l", "t">> :> PyDict(<<"i", "t", "e", "m", "s">> :> PyList(page)))

\* An envelope whose result carries no items.
NoItemsEnvelope == PyDict(<<"r", "e", "s", "u", "l", "t">> :> PyDict(<<"t", "o", "t", "a", "l">> :> PyInt(0)))

\* Decoded bodies of the catalog's answer to a dataset query.
Bodies == {Envelope(p) : p \in Pages} \cup {NoItemsEnvelope, EmptyDict, None}

\* Decoded bodies of the answer to a distribution query: the expected shape
\* and shapes that are not expected.
DistBodies ==
    {PyDict(<<"r", "e", "s", "u", "l", "t">> :> PyDict(<<"i", "t", "e", "m", "s">> :>
         PyList(<<PyDict(<<"a", "c", "c", "e", "s", "s", "U", "R", "L">> :> PyStr(<<"u", "1">>)), PyDict(<<"f", "o", "r", "m", "a", "t">> :> PyStr(<<"c", "s", "v">>))>>))),
     PyDict(<<"r", "e", "s", "u", "l", "t">> :> PyDict(<<"i", "t", "e", "m", "s">> :> PyList(<<>>))),
     PyDict(<<"r", "e", "s", "u", "l", "t">> :> PyDict(<<"i", "t", "e", "m", "s">> :> PyList(<<PyStr(<<"u", "1">>)>>))),
     PyDict(<<"r", "e", "s", "u", "l", "t">> :> PyDict(<<"i", "t", "e", "m", "s">> :> None)),
     PyDict(<<"r", "e", "s", "u", "l", "t">> :> PyDict(<<"i", "t", "e", "m", "s">> :> PyStr(<<"u", "1">>))),
     PyDict(<<"r", "e", "s", "u", "l", "t">> :> PyStr(<<"i", "t", "e", "m", "s">>)),
     PyDict(<<"r", "e", "s", "u", "l", "t">> :> None),
     NoItemsEnvelope, EmptyDict, PyList(<<>>), PyList(<<PyStr(<<"r", "e", "s", "u", "l", "t">>)>>),
     PyStr(<<"r", "e", "s", "u", "l", "t">>), PyInt(0), None}

\* Status codes the catalog is drawn to answer with.
Statuses == {200, 201, 404}

Responses ==
    {TransportError}
    \cup {InvalidBody(st) : st \in Statuses}
    \cup {JsonBody(st, b) : st \in Statuses, b \in Bodies}

DistResponses ==
    {TransportError}
    \cup {InvalidBody(st) : st \in Statuses}
    \cup {JsonBody(st, b) : st \in Statuses, b \in DistBodies}

\* The pages, bodies and replies drawn for a run of the whole script: the
\* items whose display differs, every body under status 200 and one page
\* under every status.
MainItems == {ItemA, ItemB, ItemC, ItemD}

MainPages == UNION {[1..n -> MainItems] : n \in 0..MaxItems}

MainBodies == {Envelope(p) : p \in MainPages} \cup {NoItemsEnvelope, EmptyDict, None}

MainResponses ==
    {TransportError}
    \cup {InvalidBody(st) : st \in Statuses}
    \cup {JsonBody(HTTP_OK, b) : b \in MainBodies}
    \cup {JsonBody(st, Envelope(<<ItemA>>)) : st \in Statuses}

\* Arguments get_dataset_stats is called with.
StatsInputs == Bodies \cup {PyDict(<<"r", "e", "s", "u", "l", "t">> :> None), PyList(<<>>)}

(***************************************************************************)
(* display_dataset_results                                                 *)
(***************************************************************************)
\* s.split(sep) for a one-character sep.
RECURSIVE split(_, _)
split(s, sep) ==
    IF \A i \in 1..Len(s) : s[i] # sep THEN <<s>>
    ELSE LET i == CHOOSE k \in 1..Len(s) : s[k] = sep /\ \A j \in 1..(k - 1) : s[j] # sep IN
         <<SubSeq(s, 1, i - 1)>> \o split(SubSeq(s, i + 1, Len(s)), sep)

\* Lines 115-116: identifier.split('/')[-1]; a value that is no str has no
\* split.
dataset_id_of(item) ==
    LET identifier == Get(item, <<"i", "d", "e", "n", "t", "i", "f", "i", "e", "r">>, PyStr(<<>>)) IN
    IF identifier.t # "str" THEN Raise
    ELSE LET parts == split(identifier.chars, "/") IN PyStr(parts[Len(parts)])

\* Line 25: the URL get_distribution_urls requests.
distribution_url(dataset_id) ==
    BASE_URL \o <<"/", "c", "a", "t", "a", "l", "o", "g", "/", "d", "i", "s", "t", "r", "i", "b", "u", "t", "i", "o", "n", "/", "d", "a", "t", "a", "s", "e", "t", "/">> \o dataset_id

\* sep.join(texts); an entry that is no str raises TypeError.
RECURSIVE join(_, _)
join(sep, texts) ==
    IF texts = <<>> THEN PyStr(<<>>)
    ELSE IF Head(texts).t # "str" THEN Raise
    ELSE IF Len(texts) = 1 THEN Head(texts)
    ELSE IF join(sep, Tail(texts)) = Raise THEN Raise
    ELSE PyStr(Head(texts).chars \o sep \o join(sep, Tail(texts)).chars)

\* Line 138: kw.get('_value', '') of every entry, without the isinstance
\* test of line 73; an entry that is no dict has no get.
RECURSIVE listed_values(_)
listed_values(kws) ==
    IF kws = <<>> THEN PyList(<<>>)
    ELSE IF Head(kws).t # "dict" THEN Raise
    ELSE IF listed_values(Tail(kws)) = Raise THEN Raise
    ELSE PyList(<<Get(Head(kws), <<"_", "v", "a", "l", "u", "e">>, PyStr(<<>>))>> \o listed_values(Tail(kws)).elems)

\* Lines 137-138: the text after "Etiquetas:", None when the item lists no
\* keyword, Raise when the comprehension or the join raises.
keyword_listing(item) ==
    LET keyword == Get(item, <<"k", "e", "y", "w", "o", "r", "d">>, None) IN
    IF ~Truthy(keyword) THEN None
    ELSE IF keyword.t # "list" THEN Raise
    ELSE IF listed_values(keyword.elems) = Raise THEN Raise
    ELSE join(<<",", " ">>, listed_values(keyword.elems).elems)

\* Lines 133-135: the description shown, None when there is none.
description_of(item) ==
    IF Truthy(Get(item, <<"d", "e", "s", "c", "r", "i", "p", "t", "i", "o", "n">>, None))
    THEN format_title(Get(item, <<"d", "e", "s", "c", "r", "i", "p", "t", "i", "o", "n">>, PyList(<<>>)))
    ELSE None

\* The items the loop of line 106 iterates.
items_of(d) == Subscript(Subscript(d, <<"r", "e", "s", "u", "l", "t">>), <<"i", "t", "e", "m", "s">>)

(***************************************************************************)
(* main                                                                    *)
(***************************************************************************)
Operations ==
    {"Lista completa", "Buscar por ID", "Buscar por título", "Buscar por publicador",
     "Buscar por tema", "Buscar por formato", "Buscar por palabra clave",
     "Buscar por ubicación", "Buscar por fecha de modificación"}

\* Texts typed into a text_input.
Texts == {<<>>, <<"x">>}

\* Dates picked in a date_input.
Dates == {[year |-> 2024, month |-> 1, day |-> 1], [year |-> 2024, month |-> 1, day |-> 31]}

\* Lines 167-175: the paging and sort controls of the sidebar.
Params(pageSize, page, sort) ==
    PyDict(<<"_", "p", "a", "g", "e", "S", "i", "z", "e">> :> PyInt(pageSize) @@ <<"_", "p", "a", "g", "e">> :> PyInt(page) @@ <<"_", "s", "o", "r", "t">> :> PyStr(sort))

ParamChoices == {Params(10, 0, <<"-", "i", "s", "s", "u", "e", "d">>), Params(50, 1, <<"t", "i", "t", "l", "e">>)}

\* date.strftime("%Y-%m-%dT") followed by the fixed time of day.
iso_day(d, time) ==
    Pad(d.year, 4) \o <<"-">> \o Pad(d.month, 2) \o <<"-">> \o Pad(d.day, 2) \o <<"T">> \o time

\* The condition under which each branch of main sends its request, the
\* button being pressed.
search_ready(op, text1, text2) ==
    CASE op = "Buscar por ubicación" -> Len(text1) > 0 /\ Len(text2) > 0
      [] op \in {"Lista completa", "Buscar por fecha de modificación"} -> TRUE
      [] OTHER -> Len(text1) > 0

\* The endpoint each branch of main builds.
endpoint_of(op, text1, text2, begin_date, end_date) ==
    CASE op = "Buscar por ID" -> <<"/", "c", "a", "t", "a", "l", "o", "g", "/", "d", "a", "t", "a", "s", "e", "t", "/">> \o text1
      [] op = "Buscar por título" -> <<"/", "c", "a", "t", "a", "l", "o", "g", "/", "d", "a", "t", "a", "s", "e", "t", "/", "t", "i", "t", "l", "e", "/">> \o text1
      [] op = "Buscar por publicador" -> <<"/", "c", "a", "t", "a", "l", "o", "g", "/", "d", "a", "t", "a", "s", "e", "t", "/", "p", "u", "b", "l", "i", "s", "h", "e", "r", "/">> \o text1
      [] op = "Buscar por tema" -> <<"/", "c", "a", "t", "a", "l", "o", "g", "/", "d", "a", "t", "a", "s", "e", "t", "/", "t", "h", "e", "m", "e", "/">> \o text1
      [] op = "Buscar por formato" -> <<"/", "c", "a", "t", "a", "l", "o", "g", "/", "d", "a", "t", "a", "s", "e", "t", "/", "f", "o", "r", "m", "a", "t", "/">> \o text1
      [] op = "Buscar por palabra clave" -> <<"/", "c", "a", "t", "a", "l", "o", "g", "/", "d", "a", "t", "a", "s", "e", "t", "/", "k", "e", "y", "w", "o", "r", "d", "/">> \o text1
      [] op = "Buscar por ubicación" ->
             <<"/", "c", "a", "t", "a", "l", "o", "g", "/", "d", "a", "t", "a", "s", "e", "t", "/", "s", "p", "a", "t", "i", "a", "l", "/">> \o text1 \o <<"/">> \o text2
      [] op = "Buscar por fecha de modificación" ->
             <<"/", "c", "a", "t", "a", "l", "o", "g", "/", "d", "a", "t", "a", "s", "e", "t", "/", "m", "o", "d", "i", "f", "i", "e", "d", "/", "b", "e", "g", "i", "n", "/">> \o iso_day(begin_date, <<"0", "0", ":", "0", "0", "Z">>)
                 \o <<"/", "e", "n", "d", "/">> \o iso_day(end_date, <<"2", "3", ":", "5", "9", "Z">>)
      [] op = "Lista completa" -> <<"/", "c", "a", "t", "a", "l", "o", "g", "/", "d", "a", "t", "a", "s", "e", "t">>

\* A main that hands params to make_api_request in every branch.
params_always(op, params) == params

\* The params argument each branch of main hands to make_api_request: the
\* branch of "Buscar por ID" leaves it to the default None.
params_of(op, params) ==
    IF op = "Buscar por ID" THEN None ELSE params

(***************************************************************************)
(* One run of the script                                                   *)
(***************************************************************************)
NoResponse == [kind |-> "none", status |-> 0, valid |-> FALSE, json |-> None]
NoStats == [t |-> "unset"]

Init ==
    /\ pc = "idle"
    /\ operation = "Lista completa"
    /\ requests = <<>>
    /\ response = NoResponse
    /\ data = None
    /\ stats = NoStats
    /\ idx = 0
    /\ lookups = <<>>
    /\ urls = None
    /\ outstanding = 0
    /\ failure = "none"

\* main() up to the GET of make_api_request: the operation is selected, the
\* inputs are typed and the button is pressed.
main(op, text1, text2, begin_date, end_date, params) ==
    /\ pc = "idle"
    /\ operation' = op
    /\ IF search_ready(op, text1, text2)
       THEN /\ requests' = Append(requests,
                   [endpoint |-> BASE_URL \o endpoint_of(op, text1, text2, begin_date, end_date),
                    params |-> params_of(op, params)])
            /\ outstanding' = outstanding + 1
            /\ pc' = "request"
       ELSE /\ pc' = "done"
            /\ UNCHANGED <<requests, outstanding>>
    /\ UNCHANGED <<response, data, stats, idx, lookups, urls, failure>>

\* The GET of make_api_request returns and display_dataset_results runs up to
\* its loop: the test of line 90, then get_dataset_stats.
main_response(resp) ==
    /\ pc = "request"
    /\ response' = resp
    /\ outstanding' = outstanding - 1
    /\ data' = make_api_request(resp)
    /\ LET d == make_api_request(resp) IN
       CASE has_result_items(d) = "raise" ->
                /\ failure' = "display" /\ pc' = "crashed"
                /\ UNCHANGED <<stats, idx>>
         [] has_result_items(d) = "no" ->
                /\ pc' = "done"
                /\ UNCHANGED <<stats, idx, failure>>
         [] has_result_items(d) = "yes" ->
                /\ stats' = get_dataset_stats(d)
                /\ IF get_dataset_stats(d) = Raise
                   THEN failure' = "stats" /\ pc' = "crashed" /\ idx' = idx
                   ELSE IF items_of(d).t # "list"
                   THEN failure' = "items" /\ pc' = "crashed" /\ idx' = idx
                   ELSE /\ failure' = failure
                        /\ idx' = 1
                        /\ pc' = IF Len(items_of(d).elems) = 0 THEN "done" ELSE "item"
    /\ UNCHANGED <<operation, requests, lookups, urls>>

\* Lines 106-123 for the item at idx: the title, the dataset id, and the GET
\* of get_distribution_urls is sent.
display_item ==
    /\ pc = "item"
    /\ LET item == items_of(data).elems[idx] IN
       IF item.t # "dict" \/ format_title(Get(item, <<"t", "i", "t", "l", "e">>, PyList(<<>>))) = Raise
       THEN /\ failure' = "title" /\ pc' = "crashed"
            /\ UNCHANGED <<lookups, outstanding>>
       ELSE IF dataset_id_of(item) = Raise
       THEN /\ failure' = "identifier" /\ pc' = "crashed"
            /\ UNCHANGED <<lookups, outstanding>>
       ELSE /\ lookups' = Append(lookups, distribution_url(dataset_id_of(item).chars))
            /\ outstanding' = outstanding + 1
            /\ pc' = "lookup"
            /\ failure' = failure
    /\ UNCHANGED <<operation, requests, response, data, stats, idx, urls>>

\* The GET of get_distribution_urls returns and lines 124-140 run for the
\* item at idx: the date, the description and the keyword listing.
display_item_rest(resp) ==
    /\ pc = "lookup"
    /\ urls' = get_distribution_urls(resp)
    /\ outstanding' = outstanding - 1
    /\ LET item == items_of(data).elems[idx] IN
       IF description_of(item) = Raise
       THEN failure' = "description" /\ pc' = "crashed" /\ idx' = idx
       ELSE IF keyword_listing(item) = Raise
       THEN failure' = "keyword" /\ pc' = "crashed" /\ idx' = idx
       ELSE /\ failure' = failure
            /\ idx' = idx + 1
            /\ pc' = IF idx = Len(items_of(data).elems) THEN "done" ELSE "item"
    /\ UNCHANGED <<operation, requests, response, data, stats, lookups>>

\* The next interaction reruns the script from the top; nothing of the
\* previous run is kept.
rerun ==
    /\ pc \in {"done", "crashed"}
    /\ pc' = "idle"
    /\ operation' = "Lista completa"
    /\ requests' = <<>>
    /\ response' = NoResponse
    /\ data' = None
    /\ stats' = NoStats
    /\ idx' = 0
    /\ lookups' = <<>>
    /\ urls' = None
    /\ outstanding' = 0
    /\ failure' = "none"

Next ==
    \/ \E op \in Operations, text1 \in Texts, text2 \in Texts,
          begin_date \in Dates, end_date \in Dates, params \in ParamChoices :
           main(op, text1, text2, begin_date, end_date, params)
    \/ \E resp \in MainResponses : main_response(resp)
    \/ display_item
    \/ \E resp \in DistResponses : display_item_rest(resp)
    \/ rerun

Spec == Init /\ [][Next]_vars

(***************************************************************************)
(* The functions called on their own                                       *)
(***************************************************************************)
InitCall == Init /\ pc = "idle"

\* get_dataset_stats(d)
call_get_dataset_stats(d) ==
    /\ pc = "idle"
    /\ pc' = "stats_returned"
    /\ data' = d
    /\ stats' = get_dataset_stats(d)
    /\ UNCHANGED <<operation, requests, response, idx, lookups, urls, outstanding, failure>>

\* make_api_request for a reply, and get_dataset_stats of what it returned.
call_make_api_request(resp) ==
    /\ pc = "idle"
    /\ pc' = "request_returned"
    /\ response' = resp
    /\ data' = make_api_request(resp)
    /\ stats' = get_dataset_stats(make_api_request(resp))
    /\ UNCHANGED <<operation, requests, idx, lookups, urls, outstanding, failure>>

\* get_distribution_urls for a reply.
call_get_distribution_urls(resp) ==
    /\ pc = "idle"
    /\ pc' = "urls_returned"
    /\ response' = resp
    /\ urls' = get_distribution_urls(resp)
    /\ UNCHANGED <<operation, requests, data, stats, idx, lookups, outstanding, failure>>

NextCall ==
    \/ \E d \in StatsInputs : call_get_dataset_stats(d)
    \/ \E resp \in Responses : call_make_api_request(resp)
    \/ \E resp \in DistResponses : call_get_distribution_urls(resp)

SpecCall == InitCall /\ [][NextCall]_vars

(***************************************************************************)
(* Properties                                                              *)
(***************************************************************************)
Is2xx(status) == status >= 200 /\ status <= 299

\* The state holds the statistics get_dataset_stats returned for a page.
StatsOfPage ==
    /\ pc = "stats_returned"
    /\ has_result_items(data) = "yes"
    /\ items_of(data).t = "list"

ThePage == items_of(data).elems

\* C1: get_distribution_urls returns a sequence whatever its GET delivers,
\* never None, and the empty sequence on a transport error, on a status
\* that is not 2xx and on a body that is not valid JSON.
C1_UrlsAlwaysASequence ==
    pc = "urls_returned" =>
        /\ urls.t = "list"
        /\ (response.kind = "error" \/ ~Is2xx(response.status) \/ ~response.valid)
               => urls = PyList(<<>>)

\* C2 as stated: make_api_request returns the decoded value exactly when the
\* status is 2xx and the body valid JSON, and None otherwise; statistics of
\* None have total_datasets = 0.
C2_DecodedExactlyWhen2xx ==
    pc = "request_returned" =>
        /\ data # Raise
        /\ IF response.kind = "http" /\ Is2xx(response.status) /\ response.valid
           THEN data = response.json
           ELSE data = None
        /\ data = None => stats.total_datasets = 0

\* C2 as amended: make_api_request returns the decoded value exactly when the
\* status is 200 and the body valid JSON; on a transport error, any other
\* status (the other 2xx included) or a body that is not valid JSON it
\* returns None, no exception reaches the caller, and statistics of None
\* have total_datasets = 0.
C2_DecodedExactlyWhen200 ==
    pc = "request_returned" =>
        /\ data # Raise
        /\ IF response.kind = "http" /\ response.status = 200 /\ response.valid
           THEN data = response.json
           ELSE data = None
        /\ data = None => stats.total_datasets = 0

\* A 201 reply with a valid body that holds a page was answered with None,
\* and its statistics count no dataset.
C2_Witness ==
    /\ pc = "request_returned"
    /\ response.kind = "http" /\ response.status = 201 /\ response.valid
    /\ response.json = Envelope(<<ItemA>>)
    /\ data = None
    /\ stats.total_datasets = 0

\* The issued values of a page that format_date reformats, reformatted.
Reformatted(page) ==
    {strftime(strptime(page[i].fields[<<"i", "s", "s", "u", "e", "d">>].chars)) :
        i \in {k \in 1..Len(page) :
                  /\ <<"i", "s", "s", "u", "e", "d">> \in DOMAIN page[k].fields
                  /\ page[k].fields[<<"i", "s", "s", "u", "e", "d">>].t = "str"
                  /\ strptime_accepts(page[k].fields[<<"i", "s", "s", "u", "e", "d">>].chars)}}

Least(S) == CHOOSE x \in S : \A y \in S : x = y \/ StrLess(x, y)
Greatest(S) == CHOOSE x \in S : \A y \in S : x = y \/ StrLess(y, x)

\* C3: an issued value that does not parse is returned unchanged by
\* format_date and takes no part in date_range, which is the least and the
\* greatest of the reformatted values alone, "N/A" standing for each when
\* there is none.
C3_UnparsedExcludedFromRange ==
    StatsOfPage =>
        /\ \A i \in 1..Len(ThePage) :
               (/\ <<"i", "s", "s", "u", "e", "d">> \in DOMAIN ThePage[i].fields
                /\ ~strptime_accepts(ThePage[i].fields[<<"i", "s", "s", "u", "e", "d">>].chars))
               => format_date(ThePage[i].fields[<<"i", "s", "s", "u", "e", "d">>]) = ThePage[i].fields[<<"i", "s", "s", "u", "e", "d">>]
        /\ stats.date_range =
               IF Reformatted(ThePage) = {} THEN <<"N", "/", "A", " ", "-", " ", "N", "/", "A">>
               ELSE Least(Reformatted(ThePage)) \o <<" ", "-", " ">> \o Greatest(Reformatted(ThePage))

EmptyStats ==
    [total_datasets |-> 0, unique_formats |-> 0, unique_publishers |-> 0,
     common_keywords |-> <<>>, date_range |-> <<"N", "/", "A", " ", "-", " ", "N", "/", "A">>]

\* C4: an empty items list yields zero counts, no keyword and the date_range
\* "N/A - N/A", and a result without items yields the same statistics.
C4_AbsentItemsLikeEmpty ==
    pc = "stats_returned" =>
        /\ data = Envelope(<<>>) => stats = EmptyStats
        /\ data = NoItemsEnvelope => stats = EmptyStats

\* The str() forms of the formats of the objects in the list distributions
\* of a page.
ListFormats(page) ==
    UNION {{str(page[i].fields[<<"d", "i", "s", "t", "r", "i", "b", "u", "t", "i", "o", "n">>].elems[j].fields[<<"f", "o", "r", "m", "a", "t">>]) :
               j \in {k \in 1..Len(page[i].fields[<<"d", "i", "s", "t", "r", "i", "b", "u", "t", "i", "o", "n">>].elems) :
                         /\ page[i].fields[<<"d", "i", "s", "t", "r", "i", "b", "u", "t", "i", "o", "n">>].elems[k].t = "dict"
                         /\ <<"f", "o", "r", "m", "a", "t">> \in DOMAIN page[i].fields[<<"d", "i", "s", "t", "r", "i", "b", "u", "t", "i", "o", "n">>].elems[k].fields}} :
           i \in {k \in 1..Len(page) :
                     /\ <<"d", "i", "s", "t", "r", "i", "b", "u", "t", "i", "o", "n">> \in DOMAIN page[k].fields
                     /\ page[k].fields[<<"d", "i", "s", "t", "r", "i", "b", "u", "t", "i", "o", "n">>].t = "list"}}

\* The distributions of a page that are a non-empty string.
StringDistributions(page) ==
    {page[i].fields[<<"d", "i", "s", "t", "r", "i", "b", "u", "t", "i", "o", "n">>].chars :
        i \in {k \in 1..Len(page) :
                  /\ <<"d", "i", "s", "t", "r", "i", "b", "u", "t", "i", "o", "n">> \in DOMAIN page[k].fields
                  /\ page[k].fields[<<"d", "i", "s", "t", "r", "i", "b", "u", "t", "i", "o", "n">>].t = "str"
                  /\ page[k].fields[<<"d", "i", "s", "t", "r", "i", "b", "u", "t", "i", "o", "n">>].chars # <<>>}}

\* C5 as stated: format extraction never fails and unique_formats counts
\* the distinct formats of the objects in list distributions only; a string
\* distribution and an absent one contribute nothing.
C5_OnlyListFormatsCounted ==
    StatsOfPage =>
        /\ stats # Raise
        /\ stats.unique_formats = Cardinality(ListFormats(ThePage))

\* C5 as amended: format extraction never fails and unique_formats counts
\* the distinct str() forms of the formats of the objects in list
\* distributions together with every non-empty string distribution, which
\* counts as a format itself; an absent or empty distribution contributes
\* nothing.
C5_ListFormatsAndStringsCounted ==
    StatsOfPage =>
        /\ stats # Raise
        /\ stats.unique_formats =
               Cardinality(ListFormats(ThePage) \cup StringDistributions(ThePage))

\* A page of an item whose distribution is a string and an item without
\* distribution has one format.
C5_Witness ==
    /\ StatsOfPage
    /\ ThePage = <<ItemB, ItemC>>
    /\ stats.unique_formats = 1

\* Occurrences of k in ks, and the place of its first occurrence.
Count(ks, k) == Cardinality({i \in 1..Len(ks) : ks[i] = k})
First(ks, k) == CHOOSE i \in 1..Len(ks) : ks[i] = k /\ \A j \in 1..(i - 1) : ks[j] # k

\* a is ranked before b: a higher count, or the same count and seen first.
Before(ks, a, b) ==
    \/ Count(ks, a) > Count(ks, b)
    \/ Count(ks, a) = Count(ks, b) /\ First(ks, a) < First(ks, b)

\* C6: common_keywords holds at most 5 entries, each a keyword of the
\* flattened keyword sequence with its number of occurrences, in descending
\* order of count with ties in order of first occurrence; every keyword left
\* out ranks after every keyword included.
C6_TopFiveKeywords ==
    StatsOfPage =>
        LET ks == all_keywords(ThePage)
            ck == stats.common_keywords IN
        /\ Len(ck) <= 5
        /\ Len(ck) = IF Cardinality(ToSet(ks)) < 5 THEN Cardinality(ToSet(ks)) ELSE 5
        /\ \A i \in 1..Len(ck) : ck[i][1] \in ToSet(ks) /\ ck[i][2] = Count(ks, ck[i][1])
        /\ \A i, j \in 1..Len(ck) : i < j => Before(ks, ck[i][1], ck[j][1])
        /\ \A k \in ToSet(ks) :
               (\A i \in 1..Len(ck) : ck[i][1] # k)
               => \A i \in 1..Len(ck) : Before(ks, ck[i][1], k)

\* The keywords a, a, b, c, c, c, d, e, f give c:3, a:2, b:1, d:1, e:1.
C6_Witness ==
    /\ StatsOfPage
    /\ ThePage = <<ItemA, ItemB>>
    /\ stats.common_keywords =
           <<<<PyStr(<<"c">>), 3>>, <<PyStr(<<"a">>), 2>>, <<PyStr(<<"b">>), 1>>,
             <<PyStr(<<"d">>), 1>>, <<PyStr(<<"e">>), 1>>>>

\* C7: the request main sends carries _pageSize, _page and _sort exactly
\* when the operation is not the search by id, which sends no parameter.
C7_PagingParamsUnlessById ==
    \A i \in 1..Len(requests) :
        IF operation = "Buscar por ID"
        THEN requests[i].params = None
        ELSE /\ requests[i].params.t = "dict"
             /\ DOMAIN requests[i].params.fields = {<<"_", "p", "a", "g", "e", "S", "i", "z", "e">>, <<"_", "p", "a", "g", "e">>, <<"_", "s", "o", "r", "t">>}

\* The search by id sent its request, without parameters.
C7_Witness ==
    /\ pc = "request"
    /\ operation = "Buscar por ID"
    /\ Len(requests) = 1
    /\ requests[1].endpoint = BASE_URL \o <<"/", "c", "a", "t", "a", "l", "o", "g", "/", "d", "a", "t", "a", "s", "e", "t", "/", "x">>
    /\ requests[1].params = None

\* The text after the last "/" of s, all of s when it has none.
FinalSegment(s) ==
    LET slashes == {i \in 1..Len(s) : s[i] = "/"}
        cut == IF slashes = {} THEN 0 ELSE CHOOSE i \in slashes : \A j \in slashes : j <= i IN
    SubSeq(s, cut + 1, Len(s))

\* The lookup the claim expects for an item.
ExpectedLookup(item) ==
    distribution_url(FinalSegment(
        IF <<"i", "d", "e", "n", "t", "i", "f", "i", "e", "r">> \in DOMAIN item.fields THEN item.fields[<<"i", "d", "e", "n", "t", "i", "f", "i", "e", "r">>].chars ELSE <<>>))

\* C8: no two requests are outstanding at once, no lookup is sent before the
\* main request has returned, and when the run ends the lookups sent are
\* exactly one per item of result.items, in the order of the items, each for
\* the final path segment of the item's identifier; none when there are no
\* items.
C8_OneLookupPerItemInOrder ==
    /\ outstanding <= 1
    /\ lookups # <<>> => pc \notin {"idle", "request"}
    /\ pc \in {"done", "crashed"} =>
           IF has_result_items(data) = "yes"
           THEN lookups = [i \in 1..Len(items_of(data).elems) |->
                              ExpectedLookup(items_of(data).elems[i])]
           ELSE lookups = <<>>

\* C9: an item whose keyword field is a list with entries that are no
\* objects fails neither get_dataset_stats nor the keyword listing of
\* display_dataset_results.
C9_NonObjectKeywordsSkipped ==
    /\ stats # Raise
    /\ ~(/\ pc = "crashed"
         /\ failure = "keyword"
         /\ items_of(data).elems[idx].fields[<<"k", "e", "y", "w", "o", "r", "d">>].t = "list")

\* C10: when at least one issued value of the page was reformatted,
\* date_range is the least and the greatest of the reformatted strings in
\* the order of strings; the items issued on 01 and 02 Jan 2024 at 10:00
\* give "01/01/2024 10:00 - 02/01/2024 10:00".
C10_RangeOfReformatted ==
    StatsOfPage =>
        /\ Reformatted(ThePage) # {} =>
               stats.date_range =
                   Least(Reformatted(ThePage)) \o <<" ", "-", " ">> \o Greatest(Reformatted(ThePage))
        /\ ThePage = <<ItemA, ItemB>> =>
               stats.date_range = <<"0", "1", "/", "0", "1", "/", "2", "0", "2", "4", " ", "1", "0", ":", "0", "0", " ", "-", " ", "0", "2", "/", "0", "1", "/", "2", "0", "2", "4", " ", "1", "0", ":", "0", "0">>

====
